---- MODULE Spec2Model ----
(***************************************************************************)
(* Model of the plagiarism detection engine (class PlagiarismDetector,     *)
(* src/unnamed/part_000) of the quiz server.                               *)
(*                                                                         *)
(* JavaScript values are modelled as tagged records of one shape, so that  *)
(* any two of them can be compared.  An optional field (null / undefined   *)
(* or a value) is a sequence of length 0 or 1: None or Some(x).            *)
(* Numbers the code computes as doubles are modelled as exact rationals    *)
(* <<numerator, denominator>>; comparisons with a square root are squared. *)
(*                                                                         *)
(* Four specifications share the variables: Spec (calls of the detector on *)
(* valid arguments), SpecWithout (calls with a missing argument),          *)
(* SpecServer (the join, update-progress and submit handlers of server.js) *)
(* and SpecText (the two string similarities on their own).                *)
(***************************************************************************)
EXTENDS Integers, Sequences, FiniteSets, TLC

\* ------------------------------------------------------------------------
\* Optional values
\* ------------------------------------------------------------------------
None == <<>>

Some(x) == <<x>>

IsNone(o) == Len(o) = 0

Get(o) == o[1]

\* ------------------------------------------------------------------------
\* JavaScript values that occur as answers
\* ------------------------------------------------------------------------
Null == [t |-> "null", s |-> <<>>, n |-> 0, a |-> <<>>]

Str(s) == [t |-> "str", s |-> s, n |-> 0, a |-> <<>>]

Num(n) == [t |-> "num", s |-> <<>>, n |-> n, a |-> <<>>]

Bool(b) == [t |-> "bool", s |-> <<>>, n |-> IF b THEN 1 ELSE 0, a |-> <<>>]

Arr(a) == [t |-> "arr", s |-> <<>>, n |-> 0, a |-> a]

\* ToBoolean of a value: null, "", 0 and false are falsy, arrays are truthy
Truthy(v) ==
    CASE v.t = "null" -> FALSE
      [] v.t = "str"  -> Len(v.s) > 0
      [] v.t = "num"  -> v.n # 0
      [] v.t = "bool" -> v.n = 1
      [] OTHER        -> TRUE

\* ------------------------------------------------------------------------
\* Exact rationals <<n, d>> with d > 0, kept in lowest terms
\* ------------------------------------------------------------------------
RECURSIVE Gcd(_, _)
Gcd(x, y) == IF y = 0 THEN x ELSE Gcd(y, x % y)

Abs(x) == IF x < 0 THEN -x ELSE x

Rat(n, d) ==
    LET g == Gcd(Abs(n), d)
    IN IF n = 0 THEN <<0, 1>> ELSE <<n \div g, d \div g>>

RatAdd(p, q) == Rat(p[1] * q[2] + q[1] * p[2], p[2] * q[2])

RatMulInt(p, k) == Rat(p[1] * k, p[2])

RatDivInt(p, k) == Rat(p[1], p[2] * k)

RatGeq(p, q) == p[1] * q[2] >= q[1] * p[2]

RatLeq(p, q) == RatGeq(q, p)

RatMax(p, q) == IF RatGeq(p, q) THEN p ELSE q

\* Math.round: the nearest integer, halves rounded up
RatRound(p) == (2 * p[1] + p[2]) \div (2 * p[2])

\* ------------------------------------------------------------------------
\* Strings are sequences of one-character strings
\* ------------------------------------------------------------------------
IsSpace(c) == c = " "

\* String.prototype.toLowerCase, one character
LowerChar(c) ==
    CASE c = "A" -> "a"
      [] c = "B" -> "b"
      [] c = "C" -> "c"
      [] c = "P" -> "p"
      [] OTHER   -> c

toLowerCase(s) == [i \in 1..Len(s) |-> LowerChar(s[i])]

RECURSIVE TrimLeft(_)
TrimLeft(s) ==
    IF Len(s) > 0 /\ IsSpace(s[1]) THEN TrimLeft(Tail(s)) ELSE s

RECURSIVE TrimRight(_)
TrimRight(s) ==
    IF Len(s) > 0 /\ IsSpace(s[Len(s)])
    THEN TrimRight(SubSeq(s, 1, Len(s) - 1))
    ELSE s

\* only the trailing whitespace removed
trimEndOnly(s) == TrimRight(s)

\* String.prototype.trim
trim(s) == TrimRight(TrimLeft(s))

\* String.prototype.split(/\s+/): the pieces between maximal runs of
\* whitespace; a leading or trailing run leaves an empty piece, and the
\* empty string splits into one empty piece.
RECURSIVE SplitFrom(_, _, _)
SplitFrom(s, i, cur) ==
    IF i > Len(s) THEN <<cur>>
    ELSE IF IsSpace(s[i])
         THEN IF i > 1 /\ IsSpace(s[i - 1])
              THEN SplitFrom(s, i + 1, cur)
              ELSE <<cur>> \o SplitFrom(s, i + 1, <<>>)
         ELSE SplitFrom(s, i + 1, Append(cur, s[i]))

splitWs(s) == SplitFrom(s, 1, <<>>)

Range(f) == {f[i] : i \in DOMAIN f}

\* normalizeAnswer: null stays null, strings are lowercased and trimmed,
\* other values pass through
normalizeAnswer(answer) ==
    IF answer.t = "null" THEN Null
    ELSE IF answer.t = "str" THEN Str(trim(toLowerCase(answer.s)))
    ELSE answer

\* jaccardSimilarity: |intersection| / |union| of the word sets
jaccardSimilarity(str1, str2) ==
    LET set1 == Range(splitWs(toLowerCase(str1)))
        set2 == Range(splitWs(toLowerCase(str2)))
        intersection == set1 \cap set2
        union == set1 \cup set2
    IN IF Cardinality(union) = 0 THEN <<0, 1>>
       ELSE Rat(Cardinality(intersection), Cardinality(union))

Min2(x, y) == IF x < y THEN x ELSE y

Max2(x, y) == IF x > y THEN x ELSE y

\* the substitution left out of the minimum
Min3WithoutLast(x, y, z) == Min2(x, y)

Min3(x, y, z) == Min2(x, Min2(y, z))

\* One row dp[i][0..n] of the edit-distance table from the row above it;
\* rows are sequences indexed 1..n+1 (column j is at index j+1).  The tests
\* "cell >= 0" and "Len(row) > 0" are always true: they make the evaluator
\* compute each cell and each row before the next one is started.
RECURSIVE LevRow(_, _, _, _, _, _)
LevRow(str1, str2, i, prev, j, acc) ==
    IF j > Len(str2) THEN acc
    ELSE LET cell == IF str1[i] = str2[j]
                     THEN prev[j]
                     ELSE Min3(prev[j + 1] + 1, acc[j] + 1, prev[j] + 1)
         IN IF cell >= 0
            THEN LevRow(str1, str2, i, prev, j + 1, Append(acc, cell))
            ELSE acc

RECURSIVE LevRows(_, _, _, _)
LevRows(str1, str2, i, prev) ==
    IF i > Len(str1) THEN prev
    ELSE LET row == LevRow(str1, str2, i, prev, 1, <<i>>)
         IN IF Len(row) > 0
            THEN LevRows(str1, str2, i + 1, row)
            ELSE row

\* levenshteinDistance: dp[m][n]
levenshteinDistance(str1, str2) ==
    LevRows(str1, str2, 1, [j \in 1..(Len(str2) + 1) |-> j - 1])[Len(str2) + 1]

\* levenshteinSimilarity: 1 - distance / maxLength, 1 for two empty strings
levenshteinSimilarity(str1, str2) ==
    LET distance == levenshteinDistance(str1, str2)
        maxLength == Max2(Len(str1), Len(str2))
    IN IF maxLength = 0 THEN <<1, 1>>
       ELSE Rat(maxLength - distance, maxLength)

\* ------------------------------------------------------------------------
\* JSON.stringify, as the characters it produces
\* ------------------------------------------------------------------------
DigitChars == <<"0", "1", "2", "3", "4", "5", "6", "7", "8", "9">>

RECURSIVE NatToChars(_)
NatToChars(n) ==
    IF n < 10 THEN <<DigitChars[n + 1]>>
    ELSE NatToChars(n \div 10) \o <<DigitChars[(n % 10) + 1]>>

IntToChars(n) == IF n < 0 THEN <<"-">> \o NatToChars(-n) ELSE NatToChars(n)

RECURSIVE JoinInts(_)
JoinInts(a) ==
    IF Len(a) = 0 THEN <<>>
    ELSE IF Len(a) = 1 THEN IntToChars(a[1])
    ELSE IntToChars(a[1]) \o <<",">> \o JoinInts(Tail(a))

JSONstringify(v) ==
    CASE v.t = "null" -> <<"n", "u", "l", "l">>
      [] v.t = "str"  -> <<"\"">> \o v.s \o <<"\"">>
      [] v.t = "num"  -> IntToChars(v.n)
      [] v.t = "bool" -> IF v.n = 1 THEN <<"t", "r", "u", "e">>
                         ELSE <<"f", "a", "l", "s", "e">>
      [] OTHER        -> <<"[">> \o JoinInts(v.a) \o <<"]">>

\* ------------------------------------------------------------------------
\* The detector's thresholds (constructor)
\* ------------------------------------------------------------------------
similarityThreshold == Rat(85, 100)

typingSpeedMin == 10

typingSpeedMax == 500

suspiciousTimeThreshold == 2

\* strings longer than this are compared as long text
LongTextLength == 20

\* submissions closer than this many milliseconds are simultaneous
NearbyWindowMs == 5000

\* a result with at least this overall score is suspicious
SuspiciousScore == 60

\* ------------------------------------------------------------------------
\* Answer similarity
\* ------------------------------------------------------------------------
\* the long-text test made on the first answer only
PositionSimilarityByFirstLength(answer1, answer2) ==
    IF answer1.t = "str" /\ answer2.t = "str"
    THEN IF Len(answer1.s) > LongTextLength
         THEN RatDivInt(RatAdd(jaccardSimilarity(answer1.s, answer2.s),
                               levenshteinSimilarity(answer1.s, answer2.s)), 2)
         ELSE IF answer1.s = answer2.s THEN <<1, 1>> ELSE <<0, 1>>
    ELSE IF JSONstringify(answer1) = JSONstringify(answer2)
         THEN <<1, 1>> ELSE <<0, 1>>

\* the score one comparable position adds to totalSimilarity
PositionSimilarity(answer1, answer2) ==
    IF answer1.t = "str" /\ answer2.t = "str"
    THEN IF Len(answer1.s) > LongTextLength \/ Len(answer2.s) > LongTextLength
         THEN RatDivInt(RatAdd(jaccardSimilarity(answer1.s, answer2.s),
                               levenshteinSimilarity(answer1.s, answer2.s)), 2)
         ELSE IF answer1.s = answer2.s THEN <<1, 1>> ELSE <<0, 1>>
    ELSE IF JSONstringify(answer1) = JSONstringify(answer2)
         THEN <<1, 1>> ELSE <<0, 1>>

\* the positions (1-based) that pass `if (answer1 && answer2)` and are
\* counted in comparableAnswers
ComparablePositions(a1, a2) ==
    {i \in 1..Len(a1) : Truthy(normalizeAnswer(a1[i]))
                          /\ Truthy(normalizeAnswer(a2[i]))}

\* the loop of calculateAnswerSimilarity from index i (1-based) on
RECURSIVE SimilarityLoop(_, _, _, _, _)
SimilarityLoop(a1, a2, i, totalSimilarity, comparableAnswers) ==
    IF i > Len(a1)
    THEN IF comparableAnswers > 0
         THEN RatDivInt(totalSimilarity, comparableAnswers)
         ELSE <<0, 1>>
    ELSE LET answer1 == normalizeAnswer(a1[i])
             answer2 == normalizeAnswer(a2[i])
         IN IF Truthy(answer1) /\ Truthy(answer2)
            THEN SimilarityLoop(a1, a2, i + 1,
                     RatAdd(totalSimilarity, PositionSimilarity(answer1, answer2)),
                     comparableAnswers + 1)
            ELSE SimilarityLoop(a1, a2, i + 1, totalSimilarity, comparableAnswers)

\* calculateAnswerSimilarity(answers1, answers2); the arguments are optional
\* sequences of answers
calculateAnswerSimilarity(answers1, answers2) ==
    IF IsNone(answers1) \/ IsNone(answers2)
    THEN <<0, 1>>
    ELSE IF Len(Get(answers1)) # Len(Get(answers2))
    THEN <<0, 1>>
    ELSE SimilarityLoop(Get(answers1), Get(answers2), 1, <<0, 1>>, 0)

\* the loop of getMatchingAnswers; the indices reported are 0-based
RECURSIVE MatchingLoop(_, _, _)
MatchingLoop(a1, a2, i) ==
    IF i > Len(a1) THEN <<>>
    ELSE LET n1 == normalizeAnswer(a1[i])
             n2 == IF i <= Len(a2) THEN normalizeAnswer(a2[i]) ELSE Null
             rest == MatchingLoop(a1, a2, i + 1)
         IN IF Truthy(n1) /\ Truthy(n2) /\ JSONstringify(n1) = JSONstringify(n2)
            THEN <<i - 1>> \o rest
            ELSE rest

getMatchingAnswers(answers1, answers2) ==
    MatchingLoop(Get(answers1), Get(answers2), 1)

\* only submissions without answers skipped
SkipOtherIncompleteOnly(submission, other) == IsNone(other.answers)

\* "Skip self-comparison and incomplete submissions"
SkipOther(submission, other) ==
    other.participantId = submission.participantId \/ IsNone(other.answers)

\* the threshold taken as exclusive
MeetsThresholdStrict(similarity) ==
    RatGeq(similarity, similarityThreshold) /\ similarity # similarityThreshold

\* similarity >= this.similarityThreshold
MeetsThreshold(similarity) == RatGeq(similarity, similarityThreshold)

\* the loop of detectAnswerSimilarity over allSubmissions from index k on
RECURSIVE DetectLoop(_, _, _, _, _)
DetectLoop(submission, allSubmissions, k, suspicious, maxScore) ==
    IF k > Len(allSubmissions)
    THEN [suspicious |-> suspicious, maxScore |-> maxScore]
    ELSE LET other == allSubmissions[k]
         IN IF SkipOther(submission, other)
            THEN DetectLoop(submission, allSubmissions, k + 1, suspicious, maxScore)
            ELSE LET similarity ==
                         calculateAnswerSimilarity(submission.answers, other.answers)
                 IN IF MeetsThreshold(similarity)
                    THEN DetectLoop(submission, allSubmissions, k + 1,
                             Append(suspicious,
                                 [participantId |-> other.participantId,
                                  participantName |-> other.participantName,
                                  similarityScore |-> RatRound(RatMulInt(similarity, 100)),
                                  matchingAnswers |->
                                      getMatchingAnswers(submission.answers,
                                                         other.answers)]),
                             RatMax(maxScore, RatMulInt(similarity, 100)))
                    ELSE DetectLoop(submission, allSubmissions, k + 1,
                                    suspicious, maxScore)

\* the highest score started at 50 instead of 0
detectAnswerSimilarityFromHalf(submission, allSubmissions) ==
    DetectLoop(submission, allSubmissions, 1, <<>>, <<50, 1>>)

detectAnswerSimilarity(submission, allSubmissions) ==
    DetectLoop(submission, allSubmissions, 1, <<>>, <<0, 1>>)

\* ------------------------------------------------------------------------
\* Statistics on sequences of integers.  With n = Len(xs), S = Sum(xs) and
\* Q = SumSq(xs): mean = S / n and calculateVariance = (n*Q - S*S) / (n*n).
\* ------------------------------------------------------------------------
RECURSIVE Sum(_)
Sum(xs) == IF Len(xs) = 0 THEN 0 ELSE xs[1] + Sum(Tail(xs))

RECURSIVE SumSq(_)
SumSq(xs) == IF Len(xs) = 0 THEN 0 ELSE xs[1] * xs[1] + SumSq(Tail(xs))

\* calculateVariance(numbers), as a rational
calculateVariance(numbers) ==
    IF Len(numbers) = 0 THEN <<0, 1>>
    ELSE Rat(Len(numbers) * SumSq(numbers) - Sum(numbers) * Sum(numbers),
             Len(numbers) * Len(numbers))

\* n * n * variance, the integer the comparisons below use
ScaledVariance(xs) == Len(xs) * SumSq(xs) - Sum(xs) * Sum(xs)

\* one entry of an analyzer's flag list: the issue and the numbers that
\* its value and expected texts are built from
Issue(issue, value, expected) ==
    [issue |-> issue, value |-> value, expected |-> expected]

\* the sum of the rule contributions, not limited
ClampScoreUnbounded(anomalyScore) == anomalyScore

\* Math.min(anomalyScore, 100)
ClampScore(anomalyScore) == Min2(anomalyScore, 100)

When(cond, x) == IF cond THEN <<x>> ELSE <<>>

Pts(cond, k) == IF cond THEN k ELSE 0

\* ------------------------------------------------------------------------
\* analyzeTypingPattern(typingData)
\* ------------------------------------------------------------------------
TypingAnalysis(typingData) ==
    LET speeds == IF IsNone(typingData.questionTypingSpeeds) THEN <<>>
                  ELSE Get(typingData.questionTypingSpeeds)
        n == Len(speeds)
        S == Sum(speeds)
        hasSpeeds == n > 0
        avgRounded == IF hasSpeeds THEN RatRound(Rat(S, n)) ELSE 0
        \* avgSpeed < min
        slow == hasSpeeds /\ S < typingSpeedMin * n
        \* else avgSpeed > max
        fast == hasSpeeds /\ ~slow /\ S > typingSpeedMax * n
        \* stdDev < avgSpeed * 0.1 && avgSpeed > 100
        consistent == hasSpeeds /\ S > 100 * n
                      /\ 100 * ScaledVariance(speeds) < S * S
        hasPauses == ~IsNone(typingData.pausePatterns)
        longPauses == IF hasPauses THEN Get(typingData.pausePatterns).longPauses ELSE 0
        avgPause == IF hasPauses THEN Get(typingData.pausePatterns).avgPause ELSE 0
        fewPauses == hasPauses /\ longPauses < 2 /\ typingData.totalTime > 60
        longPause == hasPauses /\ avgPause > 30
        hasChanges == ~IsNone(typingData.answerChanges)
        totalChanges == IF hasChanges THEN Sum(Get(typingData.answerChanges)) ELSE 0
        noChanges == hasChanges /\ totalChanges = 0 /\ typingData.totalTime > 30
        manyChanges == hasChanges /\ totalChanges > typingData.totalQuestions * 5
        anomalyScore == Pts(slow, 30) + Pts(fast, 40) + Pts(consistent, 35)
                        + Pts(fewPauses, 25) + Pts(longPause, 20)
                        + Pts(noChanges, 30) + Pts(manyChanges, 15)
    IN [flags |->
            When(slow, Issue("Extremely slow typing speed",
                             <<avgRounded>>, <<typingSpeedMin>>))
         \o When(fast, Issue("Unrealistically fast typing speed",
                             <<avgRounded>>, <<typingSpeedMax>>))
         \o When(consistent, Issue("Suspiciously consistent typing speed",
                                   <<>>, <<>>))
         \o When(fewPauses, Issue("Very few thinking pauses",
                                  <<longPauses>>, <<>>))
         \o When(longPause, Issue("Unusually long pauses between typing",
                                  <<avgPause>>, <<30>>))
         \o When(noChanges, Issue("No answer revisions", <<0>>, <<>>))
         \o When(manyChanges, Issue("Excessive answer revisions",
                                    <<totalChanges>>,
                                    <<typingData.totalQuestions * 5>>)),
        anomalyScore |-> ClampScore(anomalyScore)]

\* the pause patterns left unread
analyzeTypingPatternWithoutPauses(typingData) ==
    TypingAnalysis([typingData EXCEPT !.pausePatterns = None])

analyzeTypingPattern(typingData) == TypingAnalysis(typingData)

\* ------------------------------------------------------------------------
\* detectTimeAnomalies(submission, allSubmissions, questions)
\* ------------------------------------------------------------------------
\* s.completionTime is truthy: present and not 0
HasCompletionTime(s) == ~IsNone(s.completionTime) /\ Get(s.completionTime) # 0

\* new Date(a).getTime() and new Date(b).getTime() differ by less than the
\* window; an absent timestamp gives NaN, which is within no window
Nearby(ts1, ts2) ==
    ~IsNone(ts1) /\ ~IsNone(ts2) /\ Abs(Get(ts1) - Get(ts2)) < NearbyWindowMs

\* every submission with a completion time taken as a peer
IsCompletedPeerAnyone(submission, s) == HasCompletionTime(s)

\* the filter that selects completedSubmissions
IsCompletedPeer(submission, s) ==
    HasCompletionTime(s) /\ s.participantId # submission.participantId

CompletionTimes(subs) == [i \in 1..Len(subs) |-> Get(subs[i].completionTime)]

TimeAnalysis(submission, allSubmissions, questions) ==
    LET completionTime == IF IsNone(submission.completionTime) THEN 0
                          ELSE Get(submission.completionTime)
        questionCount == Len(questions)
        tooFast == completionTime < suspiciousTimeThreshold * questionCount
        IsPeer(s) == IsCompletedPeer(submission, s)
        completedSubmissions == SelectSeq(allSubmissions, IsPeer)
        n == Len(completedSubmissions)
        times == CompletionTimes(completedSubmissions)
        S == Sum(times)
        \* |completionTime - avgTime| > 2 * stdDev, multiplied by n and squared
        outlier == n >= 3
                   /\ (n * completionTime - S) * (n * completionTime - S)
                          > 4 * ScaledVariance(times)
        faster == outlier /\ n * completionTime < S
        slower == outlier /\ ~faster
        avgRounded == IF n > 0 THEN RatRound(Rat(S, n)) ELSE 0
        hasTimes == ~IsNone(submission.questionTimes)
                    /\ Len(Get(submission.questionTimes)) > 0
        questionTimes == IF hasTimes THEN Get(submission.questionTimes) ELSE <<>>
        m == Len(questionTimes)
        \* variance < avgQuestionTime * 0.1 && length > 5
        uniform == hasTimes /\ m > 5
                   /\ 10 * ScaledVariance(questionTimes) < m * Sum(questionTimes)
        IsInstant(t) == t < 1
        instantAnswers == Len(SelectSeq(questionTimes, IsInstant))
        \* instantAnswers > length * 0.3
        instant == hasTimes /\ 10 * instantAnswers > 3 * m
        IsNearby(s) == Nearby(submission.timestamp, s.timestamp)
        nearbySubs == IF ~IsNone(submission.timestamp) /\ n > 0
                      THEN SelectSeq(completedSubmissions, IsNearby)
                      ELSE <<>>
        simultaneous == Len(nearbySubs) >= 2
        anomalyScore == Pts(tooFast, 40) + Pts(faster, 30) + Pts(slower, 15)
                        + Pts(uniform, 25) + Pts(instant, 35)
                        + Pts(simultaneous, 20)
    IN [flags |->
            When(tooFast, Issue("Suspiciously fast completion",
                                <<completionTime, questionCount>>,
                                <<suspiciousTimeThreshold * questionCount>>))
         \o When(faster, Issue("Completion time significantly faster than peers",
                               <<completionTime>>, <<avgRounded>>))
         \o When(slower, Issue("Unusually slow completion time",
                               <<completionTime>>, <<avgRounded>>))
         \o When(uniform, Issue("Unnaturally consistent question timing",
                                <<>>, <<>>))
         \o When(instant, Issue("Too many instant answers",
                                <<instantAnswers>>, <<>>))
         \o When(simultaneous, Issue("Multiple submissions within 5 seconds",
                                     <<Len(nearbySubs) + 1>>, <<>>)),
        anomalyScore |-> ClampScore(anomalyScore)]

\* the threshold taken for one question, however many the quiz has
detectTimeAnomaliesOneQuestion(submission, allSubmissions, questions) ==
    TimeAnalysis(submission, allSubmissions, SubSeq(questions, 1, 1))

detectTimeAnomalies(submission, allSubmissions, questions) ==
    TimeAnalysis(submission, allSubmissions, questions)

\* ------------------------------------------------------------------------
\* getSeverity(score), the score a rational
\* ------------------------------------------------------------------------
\* the thresholds compared with > in place of >=
getSeverityStrict(score) ==
    IF ~RatLeq(score, <<80, 1>>) THEN "HIGH"
    ELSE IF ~RatLeq(score, <<60, 1>>) THEN "MEDIUM"
    ELSE IF ~RatLeq(score, <<40, 1>>) THEN "LOW"
    ELSE "INFO"

getSeverity(score) ==
    IF RatGeq(score, <<80, 1>>) THEN "HIGH"
    ELSE IF RatGeq(score, <<60, 1>>) THEN "MEDIUM"
    ELSE IF RatGeq(score, <<40, 1>>) THEN "LOW"
    ELSE "INFO"

\* ------------------------------------------------------------------------
\* analyzeSubmission(submission, allSubmissions, questions); now is the
\* clock reading that new Date() returns
\* ------------------------------------------------------------------------
\* the weighted sum truncated instead of rounded
OverallScoreTruncated(answerSimilarity, typingPattern, timeAnomaly) ==
    LET x == RatAdd(RatDivInt(answerSimilarity, 2),
                    Rat(3 * typingPattern + 2 * timeAnomaly, 10))
    IN x[1] \div x[2]

\* Math.round(answerSimilarity * 0.5 + typingPattern * 0.3 + timeAnomaly * 0.2)
OverallScore(answerSimilarity, typingPattern, timeAnomaly) ==
    RatRound(RatAdd(RatDivInt(answerSimilarity, 2),
                    Rat(3 * typingPattern + 2 * timeAnomaly, 10)))

\* a score of exactly 60 taken as not suspicious
IsSuspiciousScoreStrict(overall) == overall > SuspiciousScore

\* isSuspicious: scores.overall >= 60
IsSuspiciousScore(overall) == overall >= SuspiciousScore

\* The body of analyzeSubmission.  Of each flag the type, the severity and
\* the details are kept; its description is a fixed text (for
\* ANSWER_SIMILARITY, a text with the length of the details in it).
AnalysisResult(submission, allSubmissions, questions, now) ==
    LET similarityAnalysis == detectAnswerSimilarity(submission, allSubmissions)
        hasTyping == ~IsNone(submission.typingData)
        typingAnalysis == IF hasTyping
                          THEN analyzeTypingPattern(Get(submission.typingData))
                          ELSE [flags |-> <<>>, anomalyScore |-> 0]
        timeAnalysis == detectTimeAnomalies(submission, allSubmissions, questions)
        overall == OverallScore(similarityAnalysis.maxScore,
                                typingAnalysis.anomalyScore,
                                timeAnalysis.anomalyScore)
    IN [participantId |-> submission.participantId,
        participantName |-> submission.participantName,
        isSuspicious |-> IsSuspiciousScore(overall),
        suspicionScore |-> overall,
        scores |-> [answerSimilarity |-> similarityAnalysis.maxScore,
                    typingPattern |-> typingAnalysis.anomalyScore,
                    timeAnomaly |-> timeAnalysis.anomalyScore,
                    overall |-> overall],
        flags |->
            When(Len(similarityAnalysis.suspicious) > 0,
                 [type |-> "ANSWER_SIMILARITY",
                  severity |-> getSeverity(similarityAnalysis.maxScore),
                  details |-> similarityAnalysis.suspicious])
         \o When(hasTyping /\ Len(typingAnalysis.flags) > 0,
                 [type |-> "TYPING_PATTERN",
                  severity |-> getSeverity(<<typingAnalysis.anomalyScore, 1>>),
                  details |-> typingAnalysis.flags])
         \o When(Len(timeAnalysis.flags) > 0,
                 [type |-> "TIME_ANOMALY",
                  severity |-> getSeverity(<<timeAnalysis.anomalyScore, 1>>),
                  details |-> timeAnalysis.flags]),
        timestamp |-> now]

\* the time of the call used in place of the submission's timestamp
analyzeSubmissionAtCallTime(submission, allSubmissions, questions, now) ==
    AnalysisResult([submission EXCEPT !.timestamp = Some(now)],
                   allSubmissions, questions, now)

analyzeSubmission(submission, allSubmissions, questions, now) ==
    AnalysisResult(submission, allSubmissions, questions, now)

\* ------------------------------------------------------------------------
\* generateBatchReport(allSubmissions, questions)
\* ------------------------------------------------------------------------
\* Array.prototype.sort with (a, b) => b.suspicionScore - a.suspicionScore:
\* a stable sort, highest score first
\* a report placed before the reports of the same score
RECURSIVE InsertReportBeforeTies(_, _)
InsertReportBeforeTies(r, sorted) ==
    IF Len(sorted) = 0 THEN <<r>>
    ELSE IF sorted[1].suspicionScore > r.suspicionScore
         THEN <<sorted[1]>> \o InsertReportBeforeTies(r, Tail(sorted))
         ELSE <<r>> \o sorted

RECURSIVE InsertReport(_, _)
InsertReport(r, sorted) ==
    IF Len(sorted) = 0 THEN <<r>>
    ELSE IF sorted[1].suspicionScore >= r.suspicionScore
         THEN <<sorted[1]>> \o InsertReport(r, Tail(sorted))
         ELSE <<r>> \o sorted

RECURSIVE SortReports(_)
SortReports(reports) ==
    IF Len(reports) = 0 THEN <<>>
    ELSE InsertReport(reports[Len(reports)],
                      SortReports(SubSeq(reports, 1, Len(reports) - 1)))

\* every report that carries a flag counted
IsFlaggedAnyFlag(r) == Len(r.flags) > 0

IsFlagged(r) == r.isSuspicious

generateBatchReport(allSubmissions, questions, now) ==
    LET reports == [i \in 1..Len(allSubmissions) |->
                        analyzeSubmission(allSubmissions[i], allSubmissions,
                                          questions, now)]
        sorted == SortReports(reports)
    IN [totalSubmissions |-> Len(allSubmissions),
        flaggedSubmissions |-> Len(SelectSeq(sorted, IsFlagged)),
        reports |-> sorted,
        generatedAt |-> now]

\* ------------------------------------------------------------------------
\* Bounds of the model
\* ------------------------------------------------------------------------
\* participant ids are 1..MaxPid
MaxPid == 2

\* answer sequences up to this length are enumerated in full
MaxAnswers == 2

\* the longest allSubmissions enumerated in full
MaxSubs == 3

\* the number of calls of the detector in one behaviour
MaxCalls == 2

\* the number of results the submit handler stores in one behaviour
MaxResults == 2

\* the strings compared on their own have at most this many characters
MaxStrLen == 3

\* ------------------------------------------------------------------------
\* The inputs
\* ------------------------------------------------------------------------
\* texts of 21 and 22 characters ("long text") and of exactly 20
TextK ==
    <<"a", " ", "b", " ", "c", " ", "d", " ", "e", " ", "f", " ", "g", " ",
      "h", " ", "i", " ", "j", " ", "k">>

TextZ ==
    <<"a", " ", "b", " ", "c", " ", "d", " ", "e", " ", "f", " ", "g", " ",
      "h", " ", "i", " ", "j", " ", "z">>

TextKSpaced ==
    <<" ", "A", " ", "B", " ", "C", " ", "d", " ", "e", " ", "f", " ", "g",
      " ", "h", " ", "i", " ", "j", " ", "k">>

TextYZ ==
    <<"a", " ", "b", " ", "c", " ", "d", " ", "e", " ", "f", " ", "g", " ",
      "h", " ", "i", " ", "y", " ", "z">>

Text20K ==
    <<"a", " ", "b", " ", "c", " ", "d", " ", "e", " ", "f", " ", "g", " ",
      "h", " ", "i", " ", "j", "k">>

Text20Z ==
    <<"a", " ", "b", " ", "c", " ", "d", " ", "e", " ", "f", " ", "g", " ",
      "h", " ", "i", " ", "j", "z">>

Paris == <<"p", "a", "r", "i", "s">>

ParisCapital == <<"P", "a", "r", "i", "s">>

ParisSpaced == <<" ", "p", "a", "r", "i", "s">>

\* answers that fill the enumerated sequences
AnswerValues == {Null, Str(<<"a">>), Str(<<" ", "A">>)}

SeqsUpTo(S, n) == UNION {[1..k -> S] : k \in 0..n}

\* k answers "a" followed by n - k answers "b"
Repeated(n, k) == [i \in 1..n |-> IF i <= k THEN Str(<<"a">>) ELSE Str(<<"b">>)]

\* answer sequences chosen for the comparison paths they take
ChosenAnswers ==
    { <<Str(<<>>)>>, <<Str(<<" ">>), Str(<<"a">>)>>, <<Str(<<"b">>)>>,
      <<Str(<<"a">>), Str(<<"b">>)>>,
      <<Num(0)>>, <<Num(1)>>, <<Str(<<"1">>)>>, <<Num(0), Num(1)>>,
      <<Bool(FALSE)>>, <<Bool(TRUE)>>, <<Arr(<<1, 2>>)>>, <<Arr(<<2, 1>>)>>,
      <<Str(TextK)>>, <<Str(TextZ)>>, <<Str(TextKSpaced)>>, <<Str(TextYZ)>>,
      <<Str(Text20K)>>, <<Str(Text20Z)>>,
      <<Str(TextK), Str(<<"a">>)>>,
      <<Str(Paris), Str(Paris), Str(<<"4">>)>>,
      <<Str(ParisCapital), Str(ParisSpaced), Str(<<"4">>)>>,
      Repeated(7, 7), Repeated(7, 6),
      Repeated(20, 20), Repeated(20, 17), Repeated(20, 16) }

\* the answers field of a submission: absent, or a sequence of answers
AnswersPool ==
    {None} \cup {Some(a) : a \in SeqsUpTo(AnswerValues, MaxAnswers) \cup ChosenAnswers}

Name(pid) == <<"student", pid>>

Sub(pid, answers, completionTime, timestamp, typingData, questionTimes) ==
    [participantId |-> pid,
     participantName |-> Name(pid),
     answers |-> answers,
     completionTime |-> completionTime,
     timestamp |-> timestamp,
     typingData |-> typingData,
     questionTimes |-> questionTimes]

Typing(speeds, pauses, changes, totalTime, totalQuestions) ==
    [questionTypingSpeeds |-> speeds,
     pausePatterns |-> pauses,
     answerChanges |-> changes,
     totalTime |-> totalTime,
     totalQuestions |-> totalQuestions]

Pauses(longPauses, avgPause) == [longPauses |-> longPauses, avgPause |-> avgPause]

\* typing telemetry, one element for each combination of rules it triggers
TypingPool ==
    { Typing(Some(<<40, 60>>), Some(Pauses(3, 5)), Some(<<1, 0>>), 100, 2),
      Typing(Some(<<595, 605>>), None, None, 100, 2),
      Typing(Some(<<5>>), None, None, 20, 1),
      Typing(Some(<<10>>), Some(Pauses(1, 30)), Some(<<0>>), 30, 1),
      Typing(Some(<<500, 500>>), Some(Pauses(1, 30)), Some(<<5, 5>>), 61, 2),
      Typing(Some(<<600, 600>>), Some(Pauses(0, 40)), Some(<<0, 0>>), 100, 2),
      Typing(Some(<<200, 300>>), Some(Pauses(5, 31)), Some(<<6, 5>>), 100, 2),
      Typing(None, Some(Pauses(5, 31)), None, 100, 2),
      Typing(Some(<<>>), None, Some(<<0, 0>>), 31, 2),
      Typing(Some(<<400, 800>>), Some(Pauses(1, 30)), Some(<<6, 5>>), 100, 2) }

\* per-question times: absent, empty, five and six equal times, and times
\* with instant answers
QuestionTimesPool ==
    { None, Some(<<>>), Some(<<5, 5, 5, 5, 5>>), Some(<<5, 5, 5, 5, 5, 5>>),
      Some(<<0, 0, 3>>), Some(<<0, 4, 9, 3, 7, 2, 8>>) }

\* the timestamps (milliseconds) of the analysed submission and of others
TargetTimestamp == NearbyWindowMs \div 5

\* the first timestamp after TargetTimestamp that is not within the window
LaterTimestamp == TargetTimestamp + NearbyWindowMs

\* each call reads the clock, which has moved on since the last call
ClockStep == NearbyWindowMs

FirstClock == LaterTimestamp + 1

Questions(n) == [i \in 1..n |-> i]

\* ------------------------------------------------------------------------
\* The state: the arguments the caller holds, the clock, and what the
\* calls returned
\* ------------------------------------------------------------------------
VARIABLES submission, allSubmissions, questions, now,
          result, prevResult, batch, calls

\* what a call with a missing argument threw
VARIABLE thrown

\* the server: the participants that joined, the results stored in the
\* quiz file, the bodies of the submit requests that were handled, and the
\* last response of the plagiarism report endpoint
VARIABLES participants, quizResults, requests, report

\* two strings and their similarities, once computed
VARIABLES str1, str2, jaccard, levenshtein

detectorVars == <<submission, allSubmissions, questions,
                  result, prevResult, batch, calls>>

serverVars == <<participants, quizResults, requests, report>>

textVars == <<str1, str2, jaccard, levenshtein>>

vars == <<detectorVars, now, thrown, serverVars, textVars>>

\* no detector call is made
IdleDetector ==
    /\ submission = Sub(1, None, None, None, None, None)
    /\ allSubmissions = <<>>
    /\ questions = <<>>
    /\ result = None
    /\ prevResult = None
    /\ batch = None
    /\ calls = 0

\* the server before anyone joined, with a quiz that has no results
IdleServer ==
    /\ participants = <<>>
    /\ quizResults = <<>>
    /\ requests = <<>>
    /\ report = None

IdleText ==
    /\ str1 = <<>>
    /\ str2 = <<>>
    /\ jaccard = None
    /\ levenshtein = None

inputs == <<submission, allSubmissions, questions>>

\* one submission compared with at most one other, over all answers
InitPairs ==
    /\ \E a \in AnswersPool :
          submission = Sub(1, a, Some(100), Some(TargetTimestamp), None, None)
    /\ allSubmissions \in
          {<<>>} \cup
          { <<Sub(pid, a, Some(100), Some(0), None, None)>> :
                pid \in 1..MaxPid, a \in AnswersPool }
    /\ questions = Questions(2)

\* the others a submission is timed against: one with the same answer that
\* was submitted at nearly the same time, one with another answer submitted
\* later, one without answers and completion time, and an entry of the
\* analysed participant
PeerPool ==
    { Sub(2, Some(<<Str(<<"a">>)>>), Some(100), Some(0), None, None),
      Sub(2, Some(<<Str(<<"b">>)>>), Some(10), Some(LaterTimestamp), None, None),
      Sub(2, None, None, Some(0), None, None),
      Sub(2, Some(<<Str(<<"b">>)>>), Some(0), Some(0), None, None),
      Sub(1, Some(<<Str(<<"a">>)>>), Some(400), Some(0), None, None) }

InitPeers ==
    /\ \E ct \in {None, Some(3), Some(100), Some(400)},
          qt \in {None, Some(<<0, 0, 3>>)} :
          submission = Sub(1, Some(<<Str(<<"a">>)>>), ct,
                           Some(TargetTimestamp), None, qt)
    /\ allSubmissions \in SeqsUpTo(PeerPool, MaxSubs)
    /\ questions = Questions(2)

MixedOthers ==
    LET same == Sub(2, Some(<<Str(<<"a">>)>>), Some(100), Some(0), None, None)
        near == Sub(2, Some(Repeated(7, 6)), Some(100), Some(0), None, None)
    IN {<<>>, <<same>>, <<same, same>>, <<near>>}

\* typing telemetry and question times, with and without similar others
InitMixed ==
    /\ \E a \in {Some(<<Str(<<"a">>)>>), Some(Repeated(7, 7))},
          ct \in {None, Some(100)},
          td \in {None} \cup {Some(t) : t \in TypingPool},
          qt \in QuestionTimesPool :
          submission = Sub(1, a, ct, Some(TargetTimestamp), td, qt)
    /\ allSubmissions \in MixedOthers
    /\ questions = Questions(2)

\* a submission on its own, over completion times and question counts
InitAlone ==
    /\ \E ct \in {None, Some(0), Some(3), Some(4), Some(5), Some(19),
                  Some(20), Some(100)},
          ts \in {None, Some(TargetTimestamp)} :
          submission = Sub(1, Some(<<Str(<<"a">>)>>), ct, ts, None, None)
    /\ allSubmissions = <<>>
    /\ \E n \in {0, 2, 10} : questions = Questions(n)

\* the submissions of a quiz reported together: one with typing telemetry
\* that looks pasted, one with the same answer, and two with another answer
\* of which one has no completion time and the other was completed fast
BatchPool ==
    { Sub(1, Some(<<Str(<<"a">>)>>), Some(100), Some(0),
          Some(Typing(Some(<<595, 605>>), None, None, 100, 2)), None),
      Sub(2, Some(<<Str(<<"a">>)>>), Some(100), Some(0), None, None),
      Sub(2, Some(<<Str(<<"b">>)>>), None, Some(0), None, None),
      Sub(1, Some(<<Str(<<"b">>)>>), Some(3), Some(LaterTimestamp), None, None) }

InitBatch ==
    /\ submission \in BatchPool
    /\ allSubmissions \in SeqsUpTo(BatchPool, MaxSubs)
    /\ questions = Questions(2)

\* no call has been made
NoCalls ==
    /\ now = FirstClock
    /\ result = None
    /\ prevResult = None
    /\ batch = None
    /\ calls = 0
    /\ thrown = None

Init ==
    /\ InitPairs \/ InitPeers \/ InitMixed \/ InitAlone \/ InitBatch
    /\ NoCalls
    /\ IdleServer
    /\ IdleText

\* a call of analyzeSubmission on the arguments
Analyze ==
    /\ calls < MaxCalls
    /\ result' = Some(analyzeSubmission(submission, allSubmissions, questions, now))
    /\ prevResult' = result
    /\ now' = now + ClockStep
    /\ calls' = calls + 1
    /\ UNCHANGED <<submission, allSubmissions, questions, batch>>
    /\ UNCHANGED <<thrown, serverVars, textVars>>

\* the collection itself reordered by the call
GenerateBatchReportInPlace ==
    /\ calls < MaxCalls
    /\ batch' = Some(generateBatchReport(allSubmissions, questions, now))
    /\ allSubmissions' = [i \in 1..Len(allSubmissions) |->
                              allSubmissions[Len(allSubmissions) + 1 - i]]
    /\ now' = now + ClockStep
    /\ calls' = calls + 1
    /\ UNCHANGED <<submission, questions, result, prevResult>>
    /\ UNCHANGED <<thrown, serverVars, textVars>>

\* a call of generateBatchReport on the collection
GenerateBatchReport ==
    /\ calls < MaxCalls
    /\ batch' = Some(generateBatchReport(allSubmissions, questions, now))
    /\ now' = now + ClockStep
    /\ calls' = calls + 1
    /\ UNCHANGED <<submission, allSubmissions, questions, result, prevResult>>
    /\ UNCHANGED <<thrown, serverVars, textVars>>

Next == Analyze \/ GenerateBatchReport

Spec == Init /\ [][Next]_vars

\* ------------------------------------------------------------------------
\* analyzeSubmission called without allSubmissions or without questions
\* ------------------------------------------------------------------------
\* What the call throws.  Without allSubmissions, the for...of loop of
\* detectAnswerSimilarity throws a TypeError on its first evaluation;
\* without questions, the similarity and typing analyzers run and
\* questions.length in detectTimeAnomalies throws a TypeError.  Nothing
\* catches either in the detector.
analyzeSubmissionThrows(allSubmissionsAbsent, questionsAbsent) ==
    IF allSubmissionsAbsent
    THEN Some([name |-> "TypeError", at |-> "detectAnswerSimilarity"])
    ELSE IF questionsAbsent
    THEN Some([name |-> "TypeError", at |-> "detectTimeAnomalies"])
    ELSE None

InitWithout ==
    /\ InitMixed \/ InitAlone
    /\ NoCalls
    /\ IdleServer
    /\ IdleText

\* a call of analyzeSubmission with null for allSubmissions, for questions
\* or for both; the call returns nothing
AnalyzeWithout ==
    /\ calls < MaxCalls
    /\ \E allSubmissionsAbsent, questionsAbsent \in BOOLEAN :
          /\ allSubmissionsAbsent \/ questionsAbsent
          /\ thrown' = analyzeSubmissionThrows(allSubmissionsAbsent,
                                               questionsAbsent)
    /\ now' = now + ClockStep
    /\ calls' = calls + 1
    /\ UNCHANGED <<submission, allSubmissions, questions,
                   result, prevResult, batch>>
    /\ UNCHANGED <<serverVars, textVars>>

NextWithout == Analyze \/ AnalyzeWithout

SpecWithout == InitWithout /\ [][NextWithout]_vars

\* ------------------------------------------------------------------------
\* The server: /api/join, /api/update-progress and /api/submit.  The quiz
\* file currentQuiz.json is read at the start of a request and written
\* back after the result is pushed; the model keeps its results.  The
\* response, the rank and the achievement profiles are computed from the
\* stored results and are not read back by any handler modelled here.
\* ------------------------------------------------------------------------
\* the questions of the active quiz: one multiple-choice question
QuizQuestions ==
    <<[type |-> "multiple-choice", points |-> 1, correct |-> Str(<<"a">>)]>>

\* the participant ids the submit requests carry
RequestIds == {1, 2}

\* the answers a request carries
RequestAnswers == {<<Str(<<"a">>)>>, <<Str(<<"b">>)>>}

\* the telemetry a request carries: none, or typing that looks pasted
\* together with a question answered at once
RequestTelemetry ==
    { [typingData |-> None, proctoringData |-> None],
      [typingData |-> Some(Typing(Some(<<600, 600>>), Some(Pauses(0, 40)),
                                  Some(<<0, 0>>), 100, 2)),
       proctoringData |-> Some([timePerQuestion |-> Some(<<0>>)])] }

UnknownName == <<"Unknown", 0>>

\* participants.find(p => p.id === participantId), as an option
FindParticipant(ps, participantId) ==
    LET found == SelectSeq(ps, LAMBDA p : p.id = participantId)
    IN IF Len(found) = 0 THEN None ELSE Some(found[1])

\* the grading of one multiple-choice question: answers[idx] is undefined
\* past the end of the answers
GradeQuestion(q, answers, idx) ==
    LET studentAnswer == IF idx <= Len(answers) THEN answers[idx] ELSE Null
    IN [questionIndex |-> idx - 1,
        type |-> q.type,
        points |-> q.points,
        studentAnswer |-> studentAnswer,
        isCorrect |-> Truthy(studentAnswer) /\ studentAnswer = q.correct,
        needsManualGrading |-> FALSE]

RECURSIVE EarnedPoints(_)
EarnedPoints(detailedResults) ==
    IF Len(detailedResults) = 0 THEN 0
    ELSE (IF detailedResults[1].isCorrect THEN detailedResults[1].points ELSE 0)
         + EarnedPoints(Tail(detailedResults))

RECURSIVE TotalPoints(_)
TotalPoints(detailedResults) ==
    IF Len(detailedResults) = 0 THEN 0
    ELSE detailedResults[1].points + TotalPoints(Tail(detailedResults))

\* a stored result as the detector reads it: the object pushed to
\* quiz.results has no answers and no questionTimes property, so reading
\* them gives undefined
StoredAsSubmission(r) ==
    [participantId |-> r.participantId,
     participantName |-> r.participantName,
     answers |-> None,
     completionTime |-> r.completionTime,
     timestamp |-> Some(r.timestamp),
     typingData |-> r.typingData,
     questionTimes |-> None]

\* the result the submit handler pushes to quiz.results
SubmitResult(ps, results, participantId, answers, telemetry, clock) ==
    LET detailedResults == [idx \in 1..Len(QuizQuestions) |->
                               GradeQuestion(QuizQuestions[idx], answers, idx)]
        score == EarnedPoints(detailedResults)
        totalPoints == TotalPoints(detailedResults)
        participant == FindParticipant(ps, participantId)
        participantName == IF IsNone(participant) THEN UnknownName
                           ELSE Get(participant).name
        completionTime ==
            IF ~IsNone(participant) /\ ~IsNone(Get(participant).startedAt)
            THEN Some((clock - Get(Get(participant).startedAt)) \div 1000)
            ELSE None
        percentage == IF totalPoints > 0
                      THEN RatRound(Rat(score * 100, totalPoints))
                      ELSE 0
        questionTimes == IF IsNone(telemetry.proctoringData) THEN None
                         ELSE Get(telemetry.proctoringData).timePerQuestion
        sub == [participantId |-> participantId,
                participantName |-> participantName,
                answers |-> Some(answers),
                score |-> score,
                percentage |-> percentage,
                completionTime |-> completionTime,
                timestamp |-> Some(clock),
                typingData |-> telemetry.typingData,
                questionTimes |-> questionTimes]
        others == [i \in 1..Len(results) |-> StoredAsSubmission(results[i])]
        plagiarismAnalysis ==
            Some(analyzeSubmission(sub, others, QuizQuestions, clock))
    IN [participantId |-> participantId,
        participantName |-> participantName,
        score |-> score,
        totalGraded |-> Len(detailedResults),
        totalPoints |-> totalPoints,
        percentage |-> percentage,
        manualGradingNeeded |-> FALSE,
        detailedResults |-> detailedResults,
        proctoringData |-> telemetry.proctoringData,
        typingData |-> telemetry.typingData,
        plagiarismAnalysis |-> plagiarismAnalysis,
        timestamp |-> clock,
        completionTime |-> completionTime]

InitServer ==
    /\ IdleDetector
    /\ now = FirstClock
    /\ thrown = None
    /\ IdleServer
    /\ IdleText

\* POST /api/join: a participant with a fresh id, waiting
Join ==
    /\ Len(participants) < MaxPid
    /\ participants' = Append(participants,
                              [id |-> Len(participants) + 1,
                               name |-> Name(Len(participants) + 1),
                               status |-> "waiting",
                               startedAt |-> None])
    /\ UNCHANGED <<quizResults, requests, report, now>>
    /\ UNCHANGED <<detectorVars, thrown, textVars>>

\* POST /api/update-progress with status in_progress for a participant
\* without startedAt, which it sets; the other progress updates change
\* nothing that the submit handler reads
UpdateProgress ==
    /\ \E i \in 1..Len(participants) :
          /\ IsNone(participants[i].startedAt)
          /\ participants' =
                [participants EXCEPT
                    ![i].status = "in_progress",
                    ![i].startedAt = Some(now)]
    /\ now' = now + ClockStep
    /\ UNCHANGED <<quizResults, requests, report>>
    /\ UNCHANGED <<detectorVars, thrown, textVars>>

\* POST /api/submit
Submit ==
    /\ Len(quizResults) < MaxResults
    /\ \E participantId \in RequestIds, answers \in RequestAnswers,
          telemetry \in RequestTelemetry :
          /\ quizResults' = Append(quizResults,
                                   SubmitResult(participants, quizResults,
                                                participantId, answers,
                                                telemetry, now))
          /\ participants' =
                [i \in 1..Len(participants) |->
                    IF participants[i].id = participantId
                       /\ \A j \in 1..(i - 1) : participants[j].id # participantId
                    THEN [participants[i] EXCEPT !.status = "completed"]
                    ELSE participants[i]]
          /\ requests' = Append(requests, [participantId |-> participantId,
                                           answers |-> answers])
    /\ now' = now + ClockStep
    /\ UNCHANGED <<report, detectorVars, thrown, textVars>>

\* r.plagiarismAnalysis && r.plagiarismAnalysis.isSuspicious
IsFlaggedResult(r) ==
    ~IsNone(r.plagiarismAnalysis) /\ Get(r.plagiarismAnalysis).isSuspicious

\* the entry of the report made of a stored result
ReportEntry(r) ==
    [participantId |-> r.participantId,
     participantName |-> r.participantName,
     score |-> r.score,
     percentage |-> r.percentage,
     completionTime |-> r.completionTime,
     timestamp |-> r.timestamp,
     plagiarismAnalysis |-> r.plagiarismAnalysis]

\* the sort by descending plagiarismAnalysis.suspicionScore, stable
RECURSIVE InsertFlagged(_, _)
InsertFlagged(e, sorted) ==
    IF Len(sorted) = 0 THEN <<e>>
    ELSE IF Get(sorted[1].plagiarismAnalysis).suspicionScore
              >= Get(e.plagiarismAnalysis).suspicionScore
         THEN <<sorted[1]>> \o InsertFlagged(e, Tail(sorted))
         ELSE <<e>> \o sorted

RECURSIVE SortFlagged(_)
SortFlagged(es) ==
    IF Len(es) = 0 THEN <<>>
    ELSE InsertFlagged(es[Len(es)], SortFlagged(SubSeq(es, 1, Len(es) - 1)))

\* every stored result that has an analysis taken as flagged
plagiarismReportOfAnalysed(results) ==
    LET analysed == SelectSeq(results, LAMBDA r : ~IsNone(r.plagiarismAnalysis))
    IN [totalSubmissions |-> Len(results),
        flaggedSubmissions |-> Len(analysed),
        submissions |-> [i \in 1..Len(analysed) |-> ReportEntry(analysed[i])]]

\* the response of GET /api/plagiarism/report for the stored results
plagiarismReport(results) ==
    LET flagged == SelectSeq(results, IsFlaggedResult)
        flaggedSubmissions ==
            SortFlagged([i \in 1..Len(flagged) |-> ReportEntry(flagged[i])])
    IN [totalSubmissions |-> Len(results),
        flaggedSubmissions |-> Len(flaggedSubmissions),
        submissions |-> flaggedSubmissions]

\* GET /api/plagiarism/report
GetPlagiarismReport ==
    /\ report' = Some(plagiarismReport(quizResults))
    /\ UNCHANGED <<participants, quizResults, requests, now>>
    /\ UNCHANGED <<detectorVars, thrown, textVars>>

NextServer == Join \/ UpdateProgress \/ Submit \/ GetPlagiarismReport

SpecServer == InitServer /\ [][NextServer]_vars

\* ------------------------------------------------------------------------
\* jaccardSimilarity and levenshteinSimilarity on their own
\* ------------------------------------------------------------------------
\* the characters of the strings: a letter in both cases and the space
Alphabet == {"a", "A", " "}

Strings == SeqsUpTo(Alphabet, MaxStrLen)

InitText ==
    /\ IdleDetector
    /\ now = FirstClock
    /\ thrown = None
    /\ IdleServer
    /\ str1 \in Strings
    /\ str2 \in Strings
    /\ jaccard = None
    /\ levenshtein = None

\* a call of jaccardSimilarity(str1, str2)
JaccardSimilarity ==
    /\ IsNone(jaccard)
    /\ jaccard' = Some(jaccardSimilarity(str1, str2))
    /\ UNCHANGED <<str1, str2, levenshtein>>
    /\ UNCHANGED <<detectorVars, now, thrown, serverVars>>

\* a call of levenshteinSimilarity(str1, str2)
LevenshteinSimilarity ==
    /\ IsNone(levenshtein)
    /\ levenshtein' = Some(levenshteinSimilarity(str1, str2))
    /\ UNCHANGED <<str1, str2, jaccard>>
    /\ UNCHANGED <<detectorVars, now, thrown, serverVars>>

NextText == JaccardSimilarity \/ LevenshteinSimilarity

SpecText == InitText /\ [][NextText]_vars

\* ------------------------------------------------------------------------
\* Properties
\* ------------------------------------------------------------------------
HasResult == ~IsNone(result)

R == Get(result)

\* a result without the time it was made at
Strip(r) == [r EXCEPT !.timestamp = 0]

IsSimilarityFlag(f) == f.type = "ANSWER_SIMILARITY"

\* the suspicious list a result carries: the details of its
\* ANSWER_SIMILARITY flag, and empty without that flag
SuspiciousOf(r) ==
    LET fs == SelectSeq(r.flags, IsSimilarityFlag)
    IN IF Len(fs) = 0 THEN <<>> ELSE fs[1].details

\* other can be compared with the analysed submission: another participant,
\* answers present on both sides and of equal length
Eligible(other) ==
    /\ other.participantId # submission.participantId
    /\ ~IsNone(other.answers)
    /\ ~IsNone(submission.answers)
    /\ Len(Get(other.answers)) = Len(Get(submission.answers))

PairSimilarity(other) ==
    calculateAnswerSimilarity(submission.answers, other.answers)

RECURSIVE RatMaxOf(_)
RatMaxOf(S) ==
    IF S = {} THEN <<0, 1>>
    ELSE LET x == CHOOSE y \in S : TRUE
         IN RatMax(x, RatMaxOf(S \ {x}))

\* the largest pairwise similarity over the eligible submissions
MaxPairSimilarity ==
    RatMaxOf({PairSimilarity(allSubmissions[k]) :
                 k \in {j \in 1..Len(allSubmissions) : Eligible(allSubmissions[j])}})

\* C1: each of scores.answerSimilarity, scores.typingPattern,
\* scores.timeAnomaly and suspicionScore of a result of analyzeSubmission
\* lies in the closed range [0,100].
C1_ScoresInRange ==
    HasResult =>
        /\ R.scores.answerSimilarity[1] >= 0
        /\ R.scores.answerSimilarity[1] <= 100 * R.scores.answerSimilarity[2]
        /\ R.scores.typingPattern \in 0..100
        /\ R.scores.timeAnomaly \in 0..100
        /\ R.suspicionScore \in 0..100

\* the rules of the typing analyzer add up to more than 100 and the score
\* reported is 100
C1_Witness ==
    /\ HasResult
    /\ ~IsNone(submission.typingData)
    /\ Len(SelectSeq(R.flags, LAMBDA f : f.type = "TYPING_PATTERN")) = 1
    /\ Len(SelectSeq(R.flags, LAMBDA f : f.type = "TYPING_PATTERN")[1].details) = 5
    /\ R.scores.typingPattern = 100

\* C2: in every result of analyzeSubmission, isSuspicious is true if and
\* only if suspicionScore >= 60.
C2_SuspiciousIffSixty ==
    HasResult => (R.isSuspicious <=> R.suspicionScore >= 60)

C2_Witness == HasResult /\ R.suspicionScore = 60 /\ R.isSuspicious

C4_MaxPairwiseSimilarity ==
    HasResult => R.scores.answerSimilarity = RatMulInt(MaxPairSimilarity, 100)

\* the entry the suspicious list should hold for one other submission
ExpectedEntry(other) ==
    [participantId |-> other.participantId,
     participantName |-> other.participantName,
     similarityScore |-> RatRound(RatMulInt(PairSimilarity(other), 100)),
     matchingAnswers |-> getMatchingAnswers(submission.answers, other.answers)]

IsSuspect(other) ==
    /\ other.participantId # submission.participantId
    /\ ~IsNone(other.answers)
    /\ 100 * PairSimilarity(other)[1] >= 85 * PairSimilarity(other)[2]

\* C5: the suspicious list holds exactly the other submissions (different
\* participantId, answers present) whose pairwise similarity with the
\* analysed one is >= 0.85, in their order, each with similarityScore =
\* round(similarity*100) and its matching answer indices.
C5_SuspiciousList ==
    HasResult =>
        LET suspects == SelectSeq(allSubmissions, IsSuspect)
        IN SuspiciousOf(R) = [k \in 1..Len(suspects) |-> ExpectedEntry(suspects[k])]

\* a submission whose similarity is exactly 0.85 is listed
C5_Witness ==
    /\ HasResult
    /\ Len(SuspiciousOf(R)) = 1
    /\ SuspiciousOf(R)[1].similarityScore = 85
    /\ Len(SuspiciousOf(R)[1].matchingAnswers) = 17

\* C6: a submission of allSubmissions with the participantId of the
\* analysed one, without answers, or with answers of another length never
\* changes answerSimilarity and never appears in the suspicious list: both
\* are what the eligible submissions alone give, every entry of the list
\* is an eligible submission, and an analysed submission without answers
\* gets answerSimilarity 0 and an empty list.
C6_IneligibleIgnored ==
    HasResult =>
        LET eligible == SelectSeq(allSubmissions, Eligible)
            d == detectAnswerSimilarity(submission, eligible)
        IN /\ R.scores.answerSimilarity = d.maxScore
           /\ SuspiciousOf(R) = d.suspicious
           /\ Len(SuspiciousOf(R)) <= Len(eligible)
           /\ \A k \in 1..Len(SuspiciousOf(R)) :
                 \E j \in 1..Len(eligible) :
                    eligible[j].participantId = SuspiciousOf(R)[k].participantId
           /\ IsNone(submission.answers) =>
                 /\ R.scores.answerSimilarity = <<0, 1>>
                 /\ SuspiciousOf(R) = <<>>

\* the only other submission has the same participantId and the same
\* answers, which compare as fully similar, and is not counted
C6_Witness ==
    /\ HasResult
    /\ Len(allSubmissions) = 1
    /\ allSubmissions[1].participantId = submission.participantId
    /\ ~IsNone(submission.answers)
    /\ allSubmissions[1].answers = submission.answers
    /\ PairSimilarity(allSubmissions[1]) = <<1, 1>>
    /\ R.scores.answerSimilarity = <<0, 1>>
    /\ SuspiciousOf(R) = <<>>

NotSelf(s) == s.participantId # submission.participantId

\* C7: analyzeSubmission returns the same scores, flags and isSuspicious
\* whether or not allSubmissions contains the analysed submission: the
\* result is that of the collection without the entries of its
\* participantId and that of the collection with the submission added.
C7_SelfExclusion ==
    HasResult =>
        /\ Strip(R) = Strip(analyzeSubmission(submission,
                                SelectSeq(allSubmissions, NotSelf), questions, 0))
        /\ Strip(R) = Strip(analyzeSubmission(submission,
                                Append(allSubmissions, submission), questions, 0))

\* the collection holds an entry of the analysed participant with a
\* completion time next to two peers, and the peers raise both signals
C7_Witness ==
    /\ HasResult
    /\ Len(allSubmissions) = 3
    /\ Len(SelectSeq(allSubmissions, NotSelf)) = 2
    /\ \E k \in 1..3 : /\ ~NotSelf(allSubmissions[k])
                       /\ HasCompletionTime(allSubmissions[k])
    /\ R.scores.answerSimilarity = <<100, 1>>
    /\ R.scores.timeAnomaly >= 20

IsShortString(v) == v.t = "str" /\ Len(v.s) < 20

\* the analysed submission and the only other one are of different
\* participants and have identical answers, all short strings
C8_Case ==
    /\ HasResult
    /\ Len(allSubmissions) = 1
    /\ allSubmissions[1].participantId # submission.participantId
    /\ ~IsNone(submission.answers)
    /\ allSubmissions[1].answers = submission.answers
    /\ Len(Get(submission.answers)) >= 1
    /\ \A i \in 1..Len(Get(submission.answers)) :
          IsShortString(Get(submission.answers)[i])

\* C8: two submissions of different participants with identical answer
\* sequences of length >= 1, all entries strings shorter than 20 characters
\* (the empty string included), have pairwise similarity 1.0 and each is in
\* the other's suspicious list.
C8_IdenticalShortAnswers ==
    C8_Case =>
        /\ PairSimilarity(allSubmissions[1]) = <<1, 1>>
        /\ Len(SuspiciousOf(R)) = 1
        /\ SuspiciousOf(R)[1].participantId = allSubmissions[1].participantId
        /\ LET back == detectAnswerSimilarity(allSubmissions[1], <<submission>>)
           IN /\ Len(back.suspicious) = 1
              /\ back.suspicious[1].participantId = submission.participantId

\* C9: a second call of analyzeSubmission on the same inputs returns the
\* scores, isSuspicious, suspicionScore and flags of the first call (the
\* timestamp of the result aside).
C9_Idempotent ==
    (HasResult /\ ~IsNone(prevResult)) => Strip(R) = Strip(Get(prevResult))

\* two calls at different times, each with flags of two analyzers
C9_Witness ==
    /\ HasResult
    /\ ~IsNone(prevResult)
    /\ R.timestamp # Get(prevResult).timestamp
    /\ Len(R.flags) >= 2
    /\ R.scores.timeAnomaly > 0

\* C10: analyzeSubmission and generateBatchReport never modify their
\* inputs: the submission, allSubmissions (elements and order) and
\* questions are after every call what they were before it.
C10_InputsUnchanged ==
    [][calls' # calls =>
          /\ submission' = submission
          /\ allSubmissions' = allSubmissions
          /\ questions' = questions]_vars

\* both operations were called, and the report lists the submissions in
\* another order than the collection holds them
C10_Witness ==
    /\ HasResult
    /\ ~IsNone(batch)
    /\ Len(allSubmissions) >= 2
    /\ Get(batch).reports[1].participantId # allSubmissions[1].participantId


\* the analyses a batch report is made of, in the order of the collection
BatchAnalyses ==
    [i \in 1..Len(allSubmissions) |->
        analyzeSubmission(allSubmissions[i], allSubmissions, questions,
                          Get(batch).generatedAt)]

HasScore(A, s) == SelectSeq(A, LAMBDA r : r.suspicionScore = s)

\* the analyses of score s, s - 1, ..., 0, each group in the order of A
RECURSIVE ByScoreDown(_, _)
ByScoreDown(A, s) ==
    IF s < 0 THEN <<>> ELSE HasScore(A, s) \o ByScoreDown(A, s - 1)

\* C11: the reports of a batch report are in descending order of
\* suspicionScore, and reports of equal score are in the order their
\* submissions have in allSubmissions (the sort is stable)
C11_SortedStable ==
    ~IsNone(batch) =>
        LET reports == Get(batch).reports
        IN /\ \A i, j \in 1..Len(reports) :
                 i < j => reports[i].suspicionScore >= reports[j].suspicionScore
           /\ reports = ByScoreDown(BatchAnalyses, 100)

\* a batch of three where the sort moved a report forward and two reports of
\* different participants tie
C11_Witness ==
    /\ ~IsNone(batch)
    /\ Len(Get(batch).reports) = 3
    /\ Get(batch).reports # BatchAnalyses
    /\ \E i, j \in 1..3 :
          /\ i < j
          /\ Get(batch).reports[i].suspicionScore
                = Get(batch).reports[j].suspicionScore
          /\ Get(batch).reports[i] # Get(batch).reports[j]
          /\ Get(batch).reports[j].suspicionScore
                < Get(batch).reports[1].suspicionScore

\* how many elements of the sequence A equal r
Occurrences(A, r) == Cardinality({i \in 1..Len(A) : A[i] = r})

\* C12: generateBatchReport returns one analysis for each submission of the
\* collection, each the analyzeSubmission result of that submission against
\* the whole collection; totalSubmissions is the number of submissions and
\* flaggedSubmissions the number of reports with isSuspicious true
C12_OnePerSubmission ==
    ~IsNone(batch) =>
        LET b == Get(batch)
        IN /\ Len(b.reports) = Len(allSubmissions)
           /\ \A i \in 1..Len(allSubmissions) :
                 Occurrences(b.reports, BatchAnalyses[i])
                    = Occurrences(BatchAnalyses, BatchAnalyses[i])
           /\ b.totalSubmissions = Len(allSubmissions)
           /\ b.flaggedSubmissions
                 = Cardinality({i \in 1..Len(b.reports) :
                                   b.reports[i].isSuspicious = TRUE})

\* a batch with a suspicious report and with a report that carries a flag
\* without being suspicious
C12_Witness ==
    /\ ~IsNone(batch)
    /\ Get(batch).totalSubmissions >= 2
    /\ Get(batch).flaggedSubmissions >= 1
    /\ \E i \in 1..Len(Get(batch).reports) :
          /\ ~Get(batch).reports[i].isSuspicious
          /\ Len(Get(batch).reports[i].flags) > 0

\* C13: a call of analyzeSubmission without questions or without
\* allSubmissions is rejected by a validation that precedes every analyzer
\* and signals InvalidInput
C13_InvalidInputSignalled ==
    ~IsNone(thrown) =>
        /\ Get(thrown).name = "InvalidInput"
        /\ Get(thrown).at = "analyzeSubmission"

\* the issues of the TIME_ANOMALY flag of a result
TimeIssues(r) ==
    UNION { {r.flags[i].details[k].issue : k \in 1..Len(r.flags[i].details)} :
              i \in {j \in 1..Len(r.flags) : r.flags[j].type = "TIME_ANOMALY"} }

\* the issues raised by the rules that read the completion time
CompletionTimeIssues ==
    { "Suspiciously fast completion",
      "Completion time significantly faster than peers",
      "Unusually slow completion time" }

\* the points of the rules that do not read the completion time
OtherTimePoints(issue) ==
    CASE issue = "Unnaturally consistent question timing" -> 25
      [] issue = "Too many instant answers" -> 35
      [] issue = "Multiple submissions within 5 seconds" -> 20
      [] OTHER -> 0

RECURSIVE SumOtherTimePoints(_)
SumOtherTimePoints(S) ==
    IF S = {} THEN 0
    ELSE LET x == CHOOSE y \in S : TRUE
         IN OtherTimePoints(x) + SumOtherTimePoints(S \ {x})

\* C14: for a submission without completionTime the rules on the completion
\* time (fast completion, faster or slower than peers) raise no issue and
\* add nothing to timeAnomaly, which is made of the other rules' points
C14_NoCompletionTimeNoSignal ==
    (HasResult /\ IsNone(submission.completionTime)) =>
        /\ TimeIssues(R) \cap CompletionTimeIssues = {}
        /\ R.scores.timeAnomaly = SumOtherTimePoints(TimeIssues(R))

\* the answers of two handled requests are at least 85% similar
SimilarRequests(j, k) ==
    RatGeq(calculateAnswerSimilarity(Some(requests[j].answers),
                                     Some(requests[k].answers)),
           similarityThreshold)

\* C15: a result stored by the submit handler whose request answers are at
\* least 85% similar to the answers an earlier request of another
\* participant carried has an ANSWER_SIMILARITY flag and an answerSimilarity
\* above 0 in its plagiarismAnalysis
C15_SubmitComparesStoredAnswers ==
    \A k \in 1..Len(quizResults) :
        (\E j \in 1..(k - 1) :
            /\ requests[j].participantId # requests[k].participantId
            /\ SimilarRequests(j, k))
        => /\ ~IsNone(quizResults[k].plagiarismAnalysis)
           /\ LET analysis == Get(quizResults[k].plagiarismAnalysis)
              IN /\ \E i \in 1..Len(analysis.flags) :
                       analysis.flags[i].type = "ANSWER_SIMILARITY"
                 /\ ~RatLeq(analysis.scores.answerSimilarity, <<0, 1>>)

\* the score of the category a flag belongs to, as a rational
CategoryScore(r, type) ==
    CASE type = "ANSWER_SIMILARITY" -> r.scores.answerSimilarity
      [] type = "TYPING_PATTERN" -> <<r.scores.typingPattern, 1>>
      [] type = "TIME_ANOMALY" -> <<r.scores.timeAnomaly, 1>>

\* the severity table: HIGH from 80, MEDIUM from 60, LOW from 40, else INFO
SeverityOf(score) ==
    CHOOSE sev \in {"HIGH", "MEDIUM", "LOW", "INFO"} :
        /\ sev = "HIGH" <=> score[1] >= 80 * score[2]
        /\ sev = "MEDIUM" <=> (score[1] >= 60 * score[2] /\ score[1] < 80 * score[2])
        /\ sev = "LOW" <=> (score[1] >= 40 * score[2] /\ score[1] < 60 * score[2])
        /\ sev = "INFO" <=> score[1] < 40 * score[2]

\* C16: the severity of every flag of a result is determined by the score
\* of the flag's category alone: HIGH when that score is at least 80,
\* MEDIUM from 60 to below 80, LOW from 40 to below 60, INFO below 40
C16_SeverityOfCategoryScore ==
    HasResult =>
        \A i \in 1..Len(R.flags) :
            R.flags[i].severity = SeverityOf(CategoryScore(R, R.flags[i].type))

\* a result whose flags have different severities, one of them for a
\* score on a threshold
C16_Witness ==
    /\ HasResult
    /\ \E i, j \in 1..Len(R.flags) :
          /\ R.flags[i].severity # R.flags[j].severity
          /\ CategoryScore(R, R.flags[i].type) = <<80, 1>>
          /\ CategoryScore(R, R.flags[j].type) = <<40, 1>>

\* the positions at which neither normalized answer is null
NonNullPositions(a1, a2) ==
    {i \in 1..Len(a1) : normalizeAnswer(a1[i]) # Null
                          /\ normalizeAnswer(a2[i]) # Null}

\* C17: in the similarity of a pair, the positions left out of numerator
\* and denominator are exactly those where a normalized answer is null;
\* answers 0, false and empty or whitespace-only strings are comparable
C17_OnlyNullExcluded ==
    HasResult =>
        \A i \in 1..Len(allSubmissions) :
            Eligible(allSubmissions[i]) =>
                ComparablePositions(Get(submission.answers),
                                    Get(allSubmissions[i].answers))
                  = NonNullPositions(Get(submission.answers),
                                     Get(allSubmissions[i].answers))

\* the score of a position as a function of the two normalized answers
PositionScore(v1, v2) ==
    IF v1.t = "str" /\ v2.t = "str"
    THEN IF Len(v1.s) <= LongTextLength /\ Len(v2.s) <= LongTextLength
         THEN IF v1.s = v2.s THEN <<1, 1>> ELSE <<0, 1>>
         ELSE RatDivInt(RatAdd(jaccardSimilarity(v1.s, v2.s),
                               levenshteinSimilarity(v1.s, v2.s)), 2)
    ELSE IF JSONstringify(v1) = JSONstringify(v2) THEN <<1, 1>> ELSE <<0, 1>>

RECURSIVE SumPositionScores(_, _, _)
SumPositionScores(a1, a2, P) ==
    IF P = {} THEN <<0, 1>>
    ELSE LET i == CHOOSE k \in P : TRUE
         IN RatAdd(PositionScore(normalizeAnswer(a1[i]), normalizeAnswer(a2[i])),
                   SumPositionScores(a1, a2, P \ {i}))

\* the sum of the scores of the positions P over their number, 0 for none
MeanPositionScore(a1, a2, P) ==
    IF P = {} THEN <<0, 1>>
    ELSE RatDivInt(SumPositionScores(a1, a2, P), Cardinality(P))

\* C18: the similarity of a pair is the sum of the position scores over the
\* number of comparable positions (those where neither normalized answer is
\* null), 0 when there is none; a position scores the mean of Jaccard and
\* Levenshtein similarity for two strings of which one is longer than 20
\* characters, 1 or 0 by equality for two strings of at most 20, and 1 or 0
\* by equality of the serializations when a value is not a string
C18_MeanOfPositionScores ==
    HasResult =>
        \A i \in 1..Len(allSubmissions) :
            Eligible(allSubmissions[i]) =>
                PairSimilarity(allSubmissions[i])
                  = MeanPositionScore(
                        Get(submission.answers),
                        Get(allSubmissions[i].answers),
                        NonNullPositions(Get(submission.answers),
                                         Get(allSubmissions[i].answers)))

\* C19: jaccardSimilarity of a string with itself is 1 when the string is
\* not empty, and jaccardSimilarity of two empty strings is 0
C19_JaccardOfEqualStrings ==
    (~IsNone(jaccard) /\ str1 = str2) =>
        Get(jaccard) = IF Len(str1) = 0 THEN <<0, 1>> ELSE <<1, 1>>

\* the strings one insertion, deletion or substitution away from s (and s
\* itself); no string longer than MaxStrLen is needed on a shortest way
\* between two strings of at most that length
OneEdit(s) ==
    {SubSeq(s, 1, i - 1) \o SubSeq(s, i + 1, Len(s)) : i \in 1..Len(s)}
    \cup {[s EXCEPT ![i] = c] : i \in 1..Len(s), c \in Alphabet}
    \cup (IF Len(s) < MaxStrLen
          THEN {SubSeq(s, 1, i) \o <<c>> \o SubSeq(s, i + 1, Len(s)) :
                    i \in 0..Len(s), c \in Alphabet}
          ELSE {})

\* the strings at most k edits away from s
RECURSIVE Within(_, _)
Within(s, k) ==
    IF k = 0 THEN {s}
    ELSE LET W == Within(s, k - 1)
         IN W \cup UNION {OneEdit(t) : t \in W}

\* the least number of edits that turn s into t, for all strings
EditDistance ==
    [s \in Strings |->
        LET W == [k \in 0..MaxStrLen |-> Within(s, k)]
        IN [t \in Strings |->
               CHOOSE k \in 0..MaxStrLen :
                   /\ t \in W[k]
                   /\ \A j \in 0..(k - 1) : t \notin W[j]]]

\* C20: levenshteinSimilarity is 1 for two empty strings and otherwise
\* 1 - d / max(len) with d the least number of single-character
\* insertions, deletions and substitutions; it is the same for the
\* arguments exchanged and lies between 0 and 1
C20_LevenshteinSimilarity ==
    ~IsNone(levenshtein) =>
        LET sim == Get(levenshtein)
            longest == Max2(Len(str1), Len(str2))
        IN /\ sim = IF longest = 0 THEN <<1, 1>>
                    ELSE Rat(longest - EditDistance[str1][str2], longest)
           /\ sim = levenshteinSimilarity(str2, str1)
           /\ RatGeq(sim, <<0, 1>>)
           /\ RatLeq(sim, <<1, 1>>)

\* strings of different lengths that are two edits apart, with a
\* similarity strictly between 0 and 1
C20_Witness ==
    /\ ~IsNone(levenshtein)
    /\ Len(str1) # Len(str2)
    /\ Len(str1) > 0
    /\ Len(str2) > 0
    /\ EditDistance[str1][str2] = 2
    /\ ~RatLeq(Get(levenshtein), <<0, 1>>)
    /\ ~RatGeq(Get(levenshtein), <<1, 1>>)

\* the 0-based indices from i - 1 on, ascending, at which the normalized
\* answers of a1 and a2 are both not null and equal
RECURSIVE EqualIndices(_, _, _)
EqualIndices(a1, a2, i) ==
    IF i > Len(a1) THEN <<>>
    ELSE LET n1 == normalizeAnswer(a1[i])
             n2 == IF i <= Len(a2) THEN normalizeAnswer(a2[i]) ELSE Null
         IN (IF n1 # Null /\ n2 # Null /\ n1 = n2 THEN <<i - 1>> ELSE <<>>)
            \o EqualIndices(a1, a2, i + 1)

\* C21: the matchingAnswers of every entry of the suspicious list are the
\* ascending indices at which both answers are not null after
\* normalization and equal, whatever their length; equal answers 0, false
\* and "" are matches
C21_MatchingAnswers ==
    HasResult =>
        LET suspects == SelectSeq(allSubmissions, IsSuspect)
        IN /\ Len(SuspiciousOf(R)) = Len(suspects)
           /\ \A k \in 1..Len(suspects) :
                 SuspiciousOf(R)[k].matchingAnswers
                   = EqualIndices(Get(submission.answers),
                                  Get(suspects[k].answers), 1)

ParisAnswers == <<Str(Paris), Str(Paris), Str(<<"4">>)>>

ParisVariantAnswers == <<Str(ParisCapital), Str(ParisSpaced), Str(<<"4">>)>>

\* the analysed submission and the only other one are of different
\* participants and have string answers that, position by position, are
\* not blank and the same up to letter case and outer whitespace
SameUpToCaseAndSpace ==
    /\ HasResult
    /\ Len(allSubmissions) = 1
    /\ Eligible(allSubmissions[1])
    /\ Len(Get(submission.answers)) >= 1
    /\ \A i \in 1..Len(Get(submission.answers)) :
          LET v == Get(submission.answers)[i]
              w == Get(allSubmissions[1].answers)[i]
          IN /\ v.t = "str"
             /\ w.t = "str"
             /\ \E c \in 1..Len(v.s) : ~IsSpace(v.s[c])
             /\ TrimLeft(TrimRight(toLowerCase(v.s)))
                  = TrimLeft(TrimRight(toLowerCase(w.s)))

\* the result lists the only other submission with every index matching
\* and reports answerSimilarity 100
FullMatch ==
    /\ PairSimilarity(allSubmissions[1]) = <<1, 1>>
    /\ R.scores.answerSimilarity = <<100, 1>>
    /\ Len(SuspiciousOf(R)) = 1
    /\ SuspiciousOf(R)[1].participantId = allSubmissions[1].participantId
    /\ SuspiciousOf(R)[1].similarityScore = 100
    /\ SuspiciousOf(R)[1].matchingAnswers
          = [i \in 1..Len(Get(submission.answers)) |-> i - 1]

\* the two submissions of the scenario, either of them the analysed one
ParisScenario ==
    /\ HasResult
    /\ Len(allSubmissions) = 1
    /\ allSubmissions[1].participantId # submission.participantId
    /\ {submission.answers, allSubmissions[1].answers}
          = {Some(ParisAnswers), Some(ParisVariantAnswers)}

TypingIssues(r) ==
    LET fs == SelectSeq(r.flags, LAMBDA f : f.type = "TYPING_PATTERN")
    IN IF Len(fs) = 0 THEN <<>>
       ELSE [k \in 1..Len(fs[1].details) |-> fs[1].details[k].issue]

RECURSIVE SumSqDev(_, _, _)
SumSqDev(xs, n, S) ==
    IF Len(xs) = 0 THEN 0
    ELSE (n * xs[1] - S) * (n * xs[1] - S) + SumSqDev(Tail(xs), n, S)

\* The rules of the typing analyzer on telemetry td, each with its points
\* and its issue.  With n speeds of sum S the mean is S / n, and the
\* standard deviation is below a tenth of the mean exactly when
\* 100 * sum((n * x - S)^2) < n * S^2.
TypingRules(td) ==
    LET speeds == IF IsNone(td.questionTypingSpeeds) THEN <<>>
                  ELSE Get(td.questionTypingSpeeds)
        n == Len(speeds)
        S == Sum(speeds)
        pauses == td.pausePatterns
        changes == td.answerChanges
        revisions == IF IsNone(changes) THEN 0 ELSE Sum(Get(changes))
    IN << [on |-> n > 0 /\ S < 10 * n,
           points |-> 30, issue |-> "Extremely slow typing speed"],
          [on |-> n > 0 /\ S > 500 * n,
           points |-> 40, issue |-> "Unrealistically fast typing speed"],
          [on |-> n > 0 /\ S > 100 * n
                  /\ 100 * SumSqDev(speeds, n, S) < n * S * S,
           points |-> 35, issue |-> "Suspiciously consistent typing speed"],
          [on |-> ~IsNone(pauses) /\ Get(pauses).longPauses < 2
                  /\ td.totalTime > 60,
           points |-> 25, issue |-> "Very few thinking pauses"],
          [on |-> ~IsNone(pauses) /\ Get(pauses).avgPause > 30,
           points |-> 20, issue |-> "Unusually long pauses between typing"],
          [on |-> ~IsNone(changes) /\ revisions = 0 /\ td.totalTime > 30,
           points |-> 30, issue |-> "No answer revisions"],
          [on |-> ~IsNone(changes) /\ revisions > td.totalQuestions * 5,
           points |-> 15, issue |-> "Excessive answer revisions"] >>

RECURSIVE RulePoints(_)
RulePoints(rules) ==
    IF Len(rules) = 0 THEN 0
    ELSE (IF rules[1].on THEN rules[1].points ELSE 0) + RulePoints(Tail(rules))

RuleIssues(rules) ==
    LET triggered == SelectSeq(rules, LAMBDA r : r.on)
    IN [k \in 1..Len(triggered) |-> triggered[k].issue]

\* C23: with typingData, typingPattern is the smaller of 100 and the sum of
\* the points of the rules that hold (slow +30 or else fast +40, consistent
\* speed +35, few pauses +25, long pauses +20, no revisions +30, excessive
\* revisions +15), with one issue for each rule that holds; mean 600 with
\* standard deviation 5 and no other rule gives 75
C23_TypingRules ==
    (HasResult /\ ~IsNone(submission.typingData)) =>
        LET rules == TypingRules(Get(submission.typingData))
        IN /\ R.scores.typingPattern
                = IF RulePoints(rules) < 100 THEN RulePoints(rules) ELSE 100
           /\ TypingIssues(R) = RuleIssues(rules)
           /\ ~(rules[1].on /\ rules[2].on)

\* speeds of mean 600 and standard deviation 5, nothing else recorded
C23_Witness ==
    /\ HasResult
    /\ submission.typingData = Some(Typing(Some(<<595, 605>>), None, None, 100, 2))
    /\ R.scores.typingPattern = 75
    /\ Len(TypingIssues(R)) = 2

\* the points of each issue of the time analyzer
TimePoints(issue) ==
    CASE issue = "Suspiciously fast completion" -> 40
      [] issue = "Completion time significantly faster than peers" -> 30
      [] issue = "Unusually slow completion time" -> 15
      [] OTHER -> OtherTimePoints(issue)

RECURSIVE SumTimePoints(_)
SumTimePoints(S) ==
    IF S = {} THEN 0
    ELSE LET x == CHOOSE y \in S : TRUE
         IN TimePoints(x) + SumTimePoints(S \ {x})

\* the analysed submission has a completion time below 2 seconds for each
\* question
CompletedFast ==
    /\ ~IsNone(submission.completionTime)
    /\ Get(submission.completionTime) < 2 * Len(questions)

\* C24: a completion time below 2 seconds times the number of questions
\* adds 40 to timeAnomaly with the issue "Suspiciously fast completion";
\* completionTime 5 with 10 questions, no typingData, no questionTimes and
\* no other submission gives timeAnomaly 40, answerSimilarity 0,
\* typingPattern 0, suspicionScore 8 and isSuspicious false
C24_FastCompletion ==
    /\ (HasResult /\ CompletedFast) =>
          /\ "Suspiciously fast completion" \in TimeIssues(R)
          /\ R.scores.timeAnomaly >= 40
          /\ R.scores.timeAnomaly
                = IF SumTimePoints(TimeIssues(R)) < 100
                  THEN SumTimePoints(TimeIssues(R)) ELSE 100
    /\ (/\ HasResult
        /\ submission.completionTime = Some(5)
        /\ Len(questions) = 10
        /\ IsNone(submission.typingData)
        /\ IsNone(submission.questionTimes)
        /\ allSubmissions = <<>>) =>
          /\ R.scores.timeAnomaly = 40
          /\ R.scores.answerSimilarity = <<0, 1>>
          /\ R.scores.typingPattern = 0
          /\ R.suspicionScore = 8
          /\ R.isSuspicious = FALSE

\* the scenario of the claim: 5 seconds for 10 questions, analysed alone
C24_Witness ==
    /\ HasResult
    /\ submission.completionTime = Some(5)
    /\ Len(questions) = 10
    /\ allSubmissions = <<>>
    /\ TimeIssues(R) = {"Suspiciously fast completion"}
    /\ R.suspicionScore = 8

\* another participant's submission that carries a completion time
IsPresentPeer(s) ==
    ~IsNone(s.completionTime) /\ s.participantId # submission.participantId

PresentPeers == SelectSeq(allSubmissions, IsPresentPeer)

\* With n peers of times xs and sum S the mean is S / n and the population
\* variance sum((x - S/n)^2) / n, so |t - mean| > 2 * stdDev exactly when
\* n * (n*t - S)^2 > 4 * sum((n*x - S)^2).
PeerOutlier(t, xs) ==
    LET n == Len(xs)
        S == Sum(xs)
    IN /\ n >= 3
       /\ n * (n * t - S) * (n * t - S) > 4 * SumSqDev(xs, n, S)

BelowMean(t, xs) == Len(xs) * t < Sum(xs)

\* C25: with at least 3 other submissions that carry a completion time, and
\* the analysed completion time t more than 2 population standard deviations
\* from their mean, the time analyzer adds 30 when t is below the mean and
\* 15 otherwise; with fewer such peers or t within 2 standard deviations it
\* adds neither
C25_PeerOutlier ==
    (HasResult /\ ~IsNone(submission.completionTime)) =>
        LET t == Get(submission.completionTime)
            xs == CompletionTimes(PresentPeers)
        IN /\ ("Completion time significantly faster than peers" \in TimeIssues(R))
                 <=> (PeerOutlier(t, xs) /\ BelowMean(t, xs))
           /\ ("Unusually slow completion time" \in TimeIssues(R))
                 <=> (PeerOutlier(t, xs) /\ ~BelowMean(t, xs))
           /\ R.scores.timeAnomaly
                 = IF SumTimePoints(TimeIssues(R)) < 100
                   THEN SumTimePoints(TimeIssues(R)) ELSE 100

\* the analysed submission has question times, 5 of them or fewer
FewQuestionTimes ==
    /\ ~IsNone(submission.questionTimes)
    /\ Len(Get(submission.questionTimes)) <= 5

\* C26: with 5 or fewer question times neither the uniform-pacing rule nor
\* the instant-answer rule contributes to timeAnomaly
C26_FewQuestionTimesNoSignal ==
    (HasResult /\ FewQuestionTimes) =>
        /\ "Unnaturally consistent question timing" \notin TimeIssues(R)
        /\ "Too many instant answers" \notin TimeIssues(R)

\* a peer's timestamp is less than 5000 ms from the analysed submission's
Within5000(s) ==
    /\ ~IsNone(submission.timestamp)
    /\ ~IsNone(s.timestamp)
    /\ Abs(Get(submission.timestamp) - Get(s.timestamp)) < 5000

\* C27: the time analyzer adds 20 for simultaneous submissions exactly when
\* at least 2 submissions of other participants that carry a completion
\* time have a timestamp within 5000 ms of the analysed submission's
C27_Simultaneous ==
    HasResult =>
        /\ ("Multiple submissions within 5 seconds" \in TimeIssues(R))
              <=> Len(SelectSeq(PresentPeers, Within5000)) >= 2
        /\ R.scores.timeAnomaly
              = IF SumTimePoints(TimeIssues(R)) < 100
                THEN SumTimePoints(TimeIssues(R)) ELSE 100

SimilarityFlags(r) == SelectSeq(r.flags, IsSimilarityFlag)

\* C28: a result is suspicious only with a similarity match: with
\* answerSimilarity 0 the suspicionScore is at most 50; every suspicious
\* result carries an ANSWER_SIMILARITY flag; answerSimilarity is 0 or at
\* least 85, and the severity of an ANSWER_SIMILARITY flag is HIGH
C28_SuspiciousNeedsSimilarity ==
    HasResult =>
        /\ R.scores.answerSimilarity = <<0, 1>> => R.suspicionScore <= 50
        /\ R.isSuspicious => Len(SimilarityFlags(R)) > 0
        /\ \/ R.scores.answerSimilarity = <<0, 1>>
           \/ RatGeq(R.scores.answerSimilarity, <<85, 1>>)
        /\ \A k \in 1..Len(SimilarityFlags(R)) :
              SimilarityFlags(R)[k].severity = "HIGH"

\* typing and time anomalies without a similarity match, not suspicious
C28_Witness ==
    /\ HasResult
    /\ R.scores.answerSimilarity = <<0, 1>>
    /\ R.scores.typingPattern >= 80
    /\ R.scores.timeAnomaly >= 40
    /\ ~R.isSuspicious

OtherParticipant(k) ==
    /\ allSubmissions[k].participantId # submission.participantId
    /\ ~IsNone(allSubmissions[k].answers)
    /\ ~IsNone(submission.answers)
    /\ \A j \in 1..Len(allSubmissions) :
          /\ allSubmissions[j].participantId # submission.participantId
          /\ j # k => allSubmissions[j].participantId
                        # allSubmissions[k].participantId

\* the entries of a suspicious list that name participant pid
EntriesOf(suspicious, pid) ==
    SelectSeq(suspicious, LAMBDA e : e.participantId = pid)

\* the suspicious list of allSubmissions[k], analysed in the collection
\* that holds the analysed submission too
SuspiciousBack(k) ==
    SuspiciousOf(analyzeSubmission(allSubmissions[k],
                                   <<submission>> \o allSubmissions,
                                   questions, now))

\* C30: for two submissions of different participants with answers,
\* calculateAnswerSimilarity gives the same value in both directions, and
\* each is in the suspicious list of the other or neither is, with the same
\* similarityScore and the same matchingAnswers
C30_SymmetricSuspicion ==
    HasResult =>
        \A k \in 1..Len(allSubmissions) :
            OtherParticipant(k) =>
                LET other == allSubmissions[k]
                    mine == EntriesOf(SuspiciousOf(R), other.participantId)
                    theirs == EntriesOf(SuspiciousBack(k), submission.participantId)
                IN /\ calculateAnswerSimilarity(submission.answers, other.answers)
                        = calculateAnswerSimilarity(other.answers, submission.answers)
                   /\ Len(mine) = Len(theirs)
                   /\ Len(mine) <= 1
                   /\ Len(mine) = 1 =>
                         /\ mine[1].similarityScore = theirs[1].similarityScore
                         /\ mine[1].matchingAnswers = theirs[1].matchingAnswers

\* two participants whose answers differ and are similar enough: each
\* lists the other with a score below 100
C30_Witness ==
    /\ HasResult
    /\ Len(allSubmissions) = 1
    /\ OtherParticipant(1)
    /\ submission.answers # allSubmissions[1].answers
    /\ Len(SuspiciousOf(R)) = 1
    /\ SuspiciousOf(R)[1].similarityScore < 100
    /\ Len(SuspiciousBack(1)) = 1
====
